---- MODULE Spec2Model ----
(***************************************************************************)
(* A model of the chat assistant of this repository:                       *)
(*   - the server route POST (moderation gate, denial stream, generation   *)
(*     loop with its step budget),                                         *)
(*   - the chat page (form, send / stop / quick-start controls) around     *)
(*     the useChat receiver,                                               *)
(*   - the AssistantMessage view of a message's parts.                     *)
(*   - the snapshot of the conversation in localStorage (save, load, the   *)
(*     save effect, clearChat and its timer),                              *)
(*   - the generateImage tool.                                             *)
(* Texts are strings; a message is [id, role, parts]; a stream event is    *)
(* [type, id, name, val].                                                  *)
(***************************************************************************)
EXTENDS Integers, Sequences, FiniteSets, TLC

VARIABLES
    \* ---- server: one POST request ----
    reqMessages,      \* the `messages` array of the request body
    script,           \* what the model backend and the tools do this turn
    pc,               \* where POST is
    gateInputs,       \* the texts isContentFlagged was called with, in order
    moderationResult, \* <<>> until isContentFlagged returned, then <<result>>
    modelCalls,       \* model generations started by streamText
    toolCalls,        \* tool executions started
    toolsInFlight,    \* callIds of tools that are executing
    out,              \* the events written to the response stream, in order
    \* ---- client: the chat page ----
    variant,          \* which version of the page is running
    messages,         \* useChat: the conversation
    status,           \* useChat: "ready" | "submitted" | "streaming" | "error"
    field,            \* the form's message field
    resp,             \* useChat: the responses started, one per turn
    active,           \* useChat: index in resp of activeResponse, 0 = undefined
    \* ---- client: the persisted snapshot ----
    storage,          \* localStorage["chat-messages"]: [present, text]
    loaded,           \* `stored`: what loadMessagesFromStorage returned, <<>> before
    storePc,          \* "start" | "saved" | "loaded" | "reloaded"; at the mount of
                      \* the page "unmounted" | "rendered" | "mounted" | "loaded"
    durations,        \* the durations state: [key, value] pairs in insertion order
    isClient,         \* the isClient state
    savedDeps,        \* [messages, durations] the save effect last ran with, <<>> before
    welcomeShown,     \* welcomeMessageShownRef.current
    welcomeTimers,    \* pending setTimeout callbacks of clearChat
    clears,           \* calls of clearChat
    \* ---- server: one call of the generateImage tool ----
    imagePrompt,      \* the prompt execute is called with
    imageBackend,     \* what openai.images.generate does: [rejects, value]
    imageResult,      \* <<>> until execute settled, then <<[outcome, value]>>
    \* ---- the turns of one conversation, as the server sees them ----
    turns             \* the requests POST has finished: [request, flagged]

serverVars == <<reqMessages, script, pc, gateInputs, moderationResult,
                modelCalls, toolCalls, toolsInFlight, out>>
clientVars == <<variant, messages, status, field, resp, active>>
storeVars == <<storage, loaded, storePc, durations, isClient, savedDeps,
               welcomeShown, welcomeTimers, clears>>
imageVars == <<imagePrompt, imageBackend, imageResult>>
dialogueVars == <<turns>>
vars == <<serverVars, clientVars, storeVars, imageVars, dialogueVars>>

(***************************************************************************)
(* Bounds of the model                                                     *)
(***************************************************************************)
\* messages in a request body
MaxMsgs == 2
\* messages a conversation of the chat session grows to
MaxConversation == 4
\* turns a chat session starts
MaxTurns == 2
\* calls of clearChat
MaxClears == 2
\* calls of clearChat in a session with turns
MaxSessionClears == 1

\* stopWhen: stepCountIs(10)
StepBudget == 10

(***************************************************************************)
(* Data                                                                    *)
(***************************************************************************)
TextPart(t) == [type |-> "text", text |-> t]
FilePart == [type |-> "file"]

\* The parts arrays a user message of a request carries.
UserParts ==
    { <<>>,
      <<FilePart>>,
      <<TextPart("")>>,
      <<TextPart("a")>>,
      <<TextPart(""), TextPart("")>>,
      <<TextPart("a"), TextPart("b")>>,
      <<TextPart("a"), FilePart>>,
      <<FilePart, TextPart("b")>> }

RequestMessage ==
    { [role |-> "user", parts |-> p] : p \in UserParts }
        \cup { [role |-> "assistant", parts |-> <<TextPart("b")>>] }

RECURSIVE SeqsUpTo(_, _)
SeqsUpTo(S, n) ==
    IF n = 0 THEN { <<>> }
    ELSE LET shorter == SeqsUpTo(S, n - 1)
         IN  shorter \cup { Append(s, x) : s \in { t \in shorter : Len(t) = n - 1 }, x \in S }

Requests == SeqsUpTo(RequestMessage, MaxMsgs)

ToolNames == { "webSearch", "vectorDatabaseSearch" }

\* The model backend and the tools are outside the program: a script fixes
\* which tool the model asks for, whether that tool fails, and whether the
\* model sends reasoning. At every step the model is free to answer or to
\* ask for the tool once more.
Scripts == [ tool : ToolNames, toolFails : BOOLEAN, reasons : BOOLEAN ]

Ev(type, id, name, val) == [type |-> type, id |-> id, name |-> name, val |-> val]

(***************************************************************************)
(* Server: POST                                                            *)
(***************************************************************************)
RECURSIVE SelectRole(_, _)
\* messages.filter(msg => msg.role === role)
SelectRole(msgs, role) ==
    IF msgs = <<>> THEN <<>>
    ELSE LET rest == SelectRole(Tail(msgs), role)
         IN  IF Head(msgs).role = role THEN <<Head(msgs)>> \o rest ELSE rest

\* LatestUserMessage with shift() in the place of pop()
LatestUserMessage_First(msgs) ==
    LET users == SelectRole(msgs, "user")
    IN  IF users = <<>> THEN <<>> ELSE <<users[1]>>

\* messages.filter(msg => msg.role === 'user').pop(): <<>> is undefined
LatestUserMessage(msgs) ==
    LET users == SelectRole(msgs, "user")
    IN  IF users = <<>> THEN <<>> ELSE <<users[Len(users)]>>

RECURSIVE JoinTexts(_)
\* parts.filter(part => part.type === 'text')
\*      .map(part => 'text' in part ? part.text : '').join('')
JoinTexts(parts) ==
    IF parts = <<>> THEN ""
    ELSE LET p == Head(parts)
         IN  IF p.type = "text"
             THEN (IF "text" \in DOMAIN p THEN p.text ELSE "") \o JoinTexts(Tail(parts))
             ELSE JoinTexts(Tail(parts))

\* textParts of the latest user message; "" when there is none
TextParts(msgs) ==
    IF LatestUserMessage(msgs) = <<>> THEN ""
    ELSE JoinTexts(LatestUserMessage(msgs)[1].parts)

\* CallsGate without the test of textParts
CallsGate_AnyUserMessage(msgs) == LatestUserMessage(msgs) # <<>>

\* if (latestUserMessage) { ... if (textParts) { await isContentFlagged(textParts)
CallsGate(msgs) == LatestUserMessage(msgs) # <<>> /\ TextParts(msgs) # ""

\* isContentFlagged is a black box: {flagged, denialMessage?}; denialMessage
\* is <<>> when the property is absent.
ModerationResults ==
    [ flagged : BOOLEAN, denialMessage : { <<>>, <<"">>, <<"Denied by policy.">> } ]

FallbackDenial == "Your message violates our guidelines. I can't answer that."

\* DenialDelta with ?? in the place of ||: an empty denialMessage is sent
DenialDelta_Nullish(result) ==
    IF result.denialMessage # <<>> THEN result.denialMessage[1] ELSE FallbackDenial

\* moderationResult.denialMessage || "Your message violates ..."
DenialDelta(result) ==
    IF result.denialMessage # <<>> /\ result.denialMessage[1] # ""
    THEN result.denialMessage[1]
    ELSE FallbackDenial

DenialTextId == "moderation-denial-text"

\* the five writer.write calls of the denial stream's execute
DenialStream(result) ==
    << Ev("start", "", "", ""),
       Ev("text-start", DenialTextId, "", ""),
       Ev("text-delta", DenialTextId, "", DenialDelta(result)),
       Ev("text-end", DenialTextId, "", ""),
       Ev("finish", "", "", "") >>

\* ShortCircuits with the branch on flagged lost
ShortCircuits_Never(result) == FALSE

\* ShortCircuits with the condition negated
ShortCircuits_Negated(result) == ~result.flagged

\* if (moderationResult.flagged) { ... return createUIMessageStreamResponse }
ShortCircuits(result) == result.flagged

\* StopWhen one step late
StopWhen_Late(steps) == steps = StepBudget + 1

\* stopWhen: stepCountIs(10)
StopWhen(steps) == steps = StepBudget

(***************************************************************************)
(* What result.toUIMessageStreamResponse({sendReasoning: true}) sends for  *)
(* the steps of streamText; n is the number of the step.                   *)
(***************************************************************************)
CallId(n) == "call-" \o ToString(n)
TextId(n) == "txt-" \o ToString(n)
ReasoningId(n) == "rs-" \o ToString(n)

StreamStart == <<Ev("start", "", "", "")>>
StreamFinish == <<Ev("finish", "", "", "")>>
StepFinish == <<Ev("finish-step", "", "", "")>>

\* a step opens; with sendReasoning the model's reasoning is sent
StepOpen(s, n) ==
    <<Ev("start-step", "", "", "")>>
        \o (IF s.reasons
            THEN << Ev("reasoning-start", ReasoningId(n), "", ""),
                    Ev("reasoning-delta", ReasoningId(n), "", "think"),
                    Ev("reasoning-end", ReasoningId(n), "", "") >>
            ELSE <<>>)

\* the model answers with text, in two fragments
AnswerEvents(n) ==
    << Ev("text-start", TextId(n), "", ""),
       Ev("text-delta", TextId(n), "", "Hel"),
       Ev("text-delta", TextId(n), "", "lo"),
       Ev("text-end", TextId(n), "", "") >>

\* the model asks for a tool
ToolCallEvents(s, n) == <<Ev("tool-input-available", CallId(n), s.tool, "args")>>

\* providerOptions.openai.parallelToolCalls left unset: the model may ask for
\* several tools in one step
parallelToolCalls_Unset == TRUE

\* providerOptions: { openai: { parallelToolCalls: false } }
parallelToolCalls == FALSE

\* how many tools the model may ask for in one step
CallsPerStep == IF parallelToolCalls THEN { 1, 2 } ELSE { 1 }

\* the toolCallIds of the calls of step n
StepCallIds(n, width) ==
    [ j \in 1 .. width |-> IF j = 1 THEN CallId(n) ELSE CallId(n) \o "." \o ToString(j) ]

\* the model asks for `width` tools in step n
StepCallEvents(s, n, width) ==
    [ j \in 1 .. width |->
        Ev("tool-input-available", StepCallIds(n, width)[j], s.tool, "args") ]

\* the tool's execute returned, or threw
ToolResultEvents(s, id) ==
    IF s.toolFails
    THEN <<Ev("tool-output-error", id, "", "tool failed")>>
    ELSE <<Ev("tool-output-available", id, "", "result")>>

\* request received: latest user text computed, then the gate is awaited
\* or, with nothing to moderate, streamText starts
POST_Receive ==
    /\ pc = "request"
    /\ IF CallsGate(reqMessages)
       THEN /\ gateInputs' = Append(gateInputs, TextParts(reqMessages))
            /\ pc' = "moderating"
            /\ out' = out
       ELSE /\ gateInputs' = gateInputs
            /\ pc' = "model"
            /\ out' = out \o StreamStart
    /\ UNCHANGED <<reqMessages, script, moderationResult, modelCalls,
                   toolCalls, toolsInFlight>>
    /\ UNCHANGED <<clientVars, storeVars, imageVars, dialogueVars>>

\* isContentFlagged returned: denial stream on flagged, streamText otherwise
POST_Moderated ==
    /\ pc = "moderating"
    /\ \E result \in ModerationResults :
         /\ moderationResult' = <<result>>
         /\ IF ShortCircuits(result)
            THEN /\ pc' = "done"
                 /\ out' = out \o DenialStream(result)
            ELSE /\ pc' = "model"
                 /\ out' = out \o StreamStart
    /\ UNCHANGED <<reqMessages, script, gateInputs, modelCalls, toolCalls,
                   toolsInFlight>>
    /\ UNCHANGED <<clientVars, storeVars, imageVars, dialogueVars>>

\* POST_ModerationThrows with the call wrapped in a try/catch that goes on
\* to streamText
POST_ModerationThrows_FailOpen ==
    /\ pc = "moderating"
    /\ pc' = "model"
    /\ out' = out \o StreamStart
    /\ UNCHANGED <<reqMessages, script, gateInputs, moderationResult,
                   modelCalls, toolCalls, toolsInFlight>>
    /\ UNCHANGED <<clientVars, storeVars, imageVars, dialogueVars>>

\* isContentFlagged rejected: the await throws out of POST
POST_ModerationThrows ==
    /\ pc = "moderating"
    /\ pc' = "failed"
    /\ UNCHANGED <<reqMessages, script, gateInputs, moderationResult,
                   modelCalls, toolCalls, toolsInFlight, out>>
    /\ UNCHANGED <<clientVars, storeVars, imageVars, dialogueVars>>

\* one model generation of streamText: the model answers, or asks for a tool
ModelStep ==
    /\ pc = "model"
    /\ modelCalls' = modelCalls + 1
    /\ LET n == modelCalls + 1
       IN  \/ /\ out' = out \o StepOpen(script, n) \o AnswerEvents(n)
                           \o StepFinish \o StreamFinish
              /\ pc' = "done"
              /\ UNCHANGED <<toolCalls, toolsInFlight>>
           \/ \E width \in CallsPerStep :
                /\ out' = out \o StepOpen(script, n) \o StepCallEvents(script, n, width)
                /\ toolCalls' = toolCalls + width
                /\ toolsInFlight' = toolsInFlight
                                        \cup { StepCallIds(n, width)[j] : j \in 1 .. width }
                /\ pc' = "tool"
    /\ UNCHANGED <<reqMessages, script, gateInputs, moderationResult>>
    /\ UNCHANGED <<clientVars, storeVars, imageVars, dialogueVars>>

\* a tool's execute settles; when it was the last one in flight the step
\* ends, and the loop goes on unless stopWhen holds
ToolSettles ==
    /\ pc = "tool"
    /\ \E id \in toolsInFlight :
         /\ toolsInFlight' = toolsInFlight \ {id}
         /\ IF toolsInFlight # {id}
            THEN /\ out' = out \o ToolResultEvents(script, id)
                 /\ pc' = "tool"
            ELSE IF StopWhen(modelCalls)
            THEN /\ out' = out \o ToolResultEvents(script, id) \o StepFinish
                               \o StreamFinish
                 /\ pc' = "done"
            ELSE /\ out' = out \o ToolResultEvents(script, id) \o StepFinish
                 /\ pc' = "model"
    /\ UNCHANGED <<reqMessages, script, gateInputs, moderationResult,
                   modelCalls, toolCalls>>
    /\ UNCHANGED <<clientVars, storeVars, imageVars, dialogueVars>>

RECURSIVE ToolRounds(_, _, _)
\* the events of tool rounds from..to of a turn
ToolRounds(s, from, to) ==
    IF from > to THEN <<>>
    ELSE StepOpen(s, from) \o ToolCallEvents(s, from)
            \o ToolResultEvents(s, CallId(from)) \o StepFinish
            \o ToolRounds(s, from + 1, to)

\* the whole stream of a turn in which the model asks for the tool `rounds`
\* times and then answers
GenStream(s, rounds) ==
    StreamStart \o ToolRounds(s, 1, rounds)
        \o StepOpen(s, rounds + 1) \o AnswerEvents(rounds + 1)
        \o StepFinish \o StreamFinish

(***************************************************************************)
(* Receiver: useChat applies the events of a response to its streaming     *)
(* assistant message.  A part is [type, id, text, state]: id is the        *)
(* toolCallId of a tool part, text its input, output or error text.        *)
(***************************************************************************)
Part(type, id, text, state) == [type |-> type, id |-> id, text |-> text, state |-> state]

ToolPartType(name) == "tool-" \o name

\* the index of the tool part with this toolCallId, 0 when there is none
ToolPartIndex(parts, callId) ==
    IF \E i \in 1 .. Len(parts) : parts[i].id = callId /\ parts[i].id # ""
    THEN CHOOSE i \in 1 .. Len(parts) : parts[i].id = callId
    ELSE 0

Without(f, k) == [x \in DOMAIN f \ {k} |-> f[x]]

\* AppendDelta that keeps only the fragment that arrived last
AppendDelta_Overwrite(text, delta) == delta

\* textPart.text += chunk.delta
AppendDelta(text, delta) == text \o delta

\* One event applied to [parts, activeText, activeReasoning]; `write` tells
\* whether the message is written to the conversation.
ApplyChunk(st, ev) ==
    LET keep == [parts |-> st.parts, activeText |-> st.activeText,
                 activeReasoning |-> st.activeReasoning, write |-> FALSE]
        n == Len(st.parts)
    IN  CASE ev.type = "start-step" ->
               [keep EXCEPT !.parts = Append(st.parts, Part("step-start", "", "", ""))]
          [] ev.type = "finish-step" ->
               [keep EXCEPT !.activeText = <<>>, !.activeReasoning = <<>>]
          [] ev.type = "text-start" ->
               [keep EXCEPT !.parts = Append(st.parts, Part("text", "", "", "streaming")),
                            !.activeText = (ev.id :> (n + 1)) @@ st.activeText,
                            !.write = TRUE]
          [] ev.type = "text-delta" /\ ev.id \in DOMAIN st.activeText ->
               [keep EXCEPT !.parts[st.activeText[ev.id]].text = AppendDelta(@, ev.val),
                            !.write = TRUE]
          [] ev.type = "text-end" /\ ev.id \in DOMAIN st.activeText ->
               [keep EXCEPT !.parts[st.activeText[ev.id]].state = "done",
                            !.activeText = Without(st.activeText, ev.id),
                            !.write = TRUE]
          [] ev.type = "reasoning-start" ->
               [keep EXCEPT !.parts = Append(st.parts, Part("reasoning", "", "", "streaming")),
                            !.activeReasoning = (ev.id :> (n + 1)) @@ st.activeReasoning,
                            !.write = TRUE]
          [] ev.type = "reasoning-delta" /\ ev.id \in DOMAIN st.activeReasoning ->
               [keep EXCEPT !.parts[st.activeReasoning[ev.id]].text = AppendDelta(@, ev.val),
                            !.write = TRUE]
          [] ev.type = "reasoning-end" /\ ev.id \in DOMAIN st.activeReasoning ->
               [keep EXCEPT !.parts[st.activeReasoning[ev.id]].state = "done",
                            !.activeReasoning = Without(st.activeReasoning, ev.id),
                            !.write = TRUE]
          [] ev.type = "tool-input-available" ->
               IF ToolPartIndex(st.parts, ev.id) = 0
               THEN [keep EXCEPT !.parts = Append(st.parts,
                                     Part(ToolPartType(ev.name), ev.id, ev.val, "input-available")),
                                 !.write = TRUE]
               ELSE [keep EXCEPT !.parts[ToolPartIndex(st.parts, ev.id)] =
                                     Part(ToolPartType(ev.name), ev.id, ev.val, "input-available"),
                                 !.write = TRUE]
          [] ev.type = "tool-output-available" /\ ToolPartIndex(st.parts, ev.id) # 0 ->
               [keep EXCEPT !.parts[ToolPartIndex(st.parts, ev.id)].state = "output-available",
                            !.parts[ToolPartIndex(st.parts, ev.id)].text = ev.val,
                            !.write = TRUE]
          [] ev.type = "tool-output-error" /\ ToolPartIndex(st.parts, ev.id) # 0 ->
               [keep EXCEPT !.parts[ToolPartIndex(st.parts, ev.id)].state = "output-error",
                            !.parts[ToolPartIndex(st.parts, ev.id)].text = ev.val,
                            !.write = TRUE]
          [] OTHER -> keep

EmptyStreamingState ==
    [parts |-> <<>>, activeText |-> <<>>, activeReasoning |-> <<>>, write |-> FALSE]

RECURSIVE ReplayFrom(_, _)
ReplayFrom(st, events) ==
    IF events = <<>> THEN st
    ELSE ReplayFrom(ApplyChunk(st, Head(events)), Tail(events))

\* the parts of the assistant message a stream materializes
Replay(events) == ReplayFrom(EmptyStreamingState, events).parts

(***************************************************************************)
(* View: AssistantMessage maps every part, by index, to an element.        *)
(***************************************************************************)
\* part.type.startsWith("tool-") || part.type === "dynamic-tool"
IsToolPartType(type) ==
    \/ \E name \in ToolNames : type = "tool-" \o name
    \/ type = "dynamic-tool"

NullElement == [component |-> "null", key |-> 0, isStreaming |-> FALSE]

\* RenderPart without the test of part.state: a tool part is always shown
\* as a call
RenderPart_AlwaysCall(part, i, nParts, st, isLastMessage) ==
    LET isStreaming == st = "streaming" /\ isLastMessage /\ i = nParts
    IN  IF part.type = "text"
        THEN [component |-> "AssistantTextPart", key |-> i, isStreaming |-> isStreaming]
        ELSE IF part.type = "reasoning"
        THEN [component |-> "ReasoningPart", key |-> i, isStreaming |-> isStreaming]
        ELSE IF IsToolPartType(part.type)
        THEN [component |-> "ToolCall", key |-> i, isStreaming |-> FALSE]
        ELSE NullElement

\* RenderPart without the branch for reasoning parts
RenderPart_NoReasoning(part, i, nParts, st, isLastMessage) ==
    LET isStreaming == st = "streaming" /\ isLastMessage /\ i = nParts
    IN  IF part.type = "text"
        THEN [component |-> "AssistantTextPart", key |-> i, isStreaming |-> isStreaming]
        ELSE IF IsToolPartType(part.type)
        THEN IF part.state = "output-available"
             THEN [component |-> "ToolResult", key |-> i, isStreaming |-> FALSE]
             ELSE [component |-> "ToolCall", key |-> i, isStreaming |-> FALSE]
        ELSE NullElement

\* the body of message.parts.map((part, i) => ...); i counts from 1 here
RenderPart(part, i, nParts, st, isLastMessage) ==
    LET isStreaming == st = "streaming" /\ isLastMessage /\ i = nParts
    IN  IF part.type = "text"
        THEN [component |-> "AssistantTextPart", key |-> i, isStreaming |-> isStreaming]
        ELSE IF part.type = "reasoning"
        THEN [component |-> "ReasoningPart", key |-> i, isStreaming |-> isStreaming]
        ELSE IF IsToolPartType(part.type)
        THEN IF part.state = "output-available"
             THEN [component |-> "ToolResult", key |-> i, isStreaming |-> FALSE]
             ELSE [component |-> "ToolCall", key |-> i, isStreaming |-> FALSE]
        ELSE NullElement

\* the array message.parts.map returns, nulls included
AssistantMessage(message, st, isLastMessage) ==
    [ i \in 1 .. Len(message.parts) |->
        RenderPart(message.parts[i], i, Len(message.parts), st, isLastMessage) ]

(***************************************************************************)
(* Chat page.  Three versions of the page are in the repository:           *)
(*   "page"     src/app/page.tsx                                            *)
(*   "part_002" src/unnamed/part_002                                        *)
(*   "part_003" src/unnamed/part_003                                        *)
(***************************************************************************)
Variants == { "page", "part_002", "part_003" }

Busy(st) == st = "submitted" \/ st = "streaming"

\* <Input disabled={...}>
InputDisabled_page(st) == FALSE
InputDisabled_part_002(st) == st = "streaming"
InputDisabled_part_003(st) == st = "streaming"
InputDisabled(v, st) ==
    CASE v = "page" -> InputDisabled_page(st)
      [] v = "part_002" -> InputDisabled_part_002(st)
      [] v = "part_003" -> InputDisabled_part_003(st)

\* the condition under which the send (ArrowUp) button is rendered
SendButtonShown_page(st) == st = "ready" \/ st = "error" \/ st = "streaming"
SendButtonShown_part_002(st) == st = "ready" \/ st = "error"
SendButtonShown_part_003(st) == ~Busy(st)
SendButtonShown(v, st) ==
    CASE v = "page" -> SendButtonShown_page(st)
      [] v = "part_002" -> SendButtonShown_part_002(st)
      [] v = "part_003" -> SendButtonShown_part_003(st)

\* the condition under which the stop (Square) button is rendered
StopButtonShown_page(st) == st = "submitted"
StopButtonShown_part_002(st) == st = "streaming" \/ st = "submitted"
StopButtonShown_part_003(st) == Busy(st)
StopButtonShown(v, st) ==
    CASE v = "page" -> StopButtonShown_page(st)
      [] v = "part_002" -> StopButtonShown_part_002(st)
      [] v = "part_003" -> StopButtonShown_part_003(st)

\* messages.some((m) => m.role === "user")
hasUserMessages(msgs) == \E i \in 1 .. Len(msgs) : msgs[i].role = "user"

\* the chips with the `disabled` attribute left out
ChipsEnabled_page_NeverDisabled(st, msgs) == ~hasUserMessages(msgs)

\* the quick-start chips are rendered and not disabled
ChipsEnabled_page(st, msgs) == ~hasUserMessages(msgs) /\ ~(st = "streaming" \/ st = "submitted")
ChipsEnabled_part_002(st, msgs) == ~hasUserMessages(msgs) /\ ~(st = "streaming" \/ st = "submitted")
ChipsEnabled_part_003(st, msgs) == ~hasUserMessages(msgs) /\ st = "ready"
ChipsEnabled(v, st, msgs) ==
    CASE v = "page" -> ChipsEnabled_page(st, msgs)
      [] v = "part_002" -> ChipsEnabled_part_002(st, msgs)
      [] v = "part_003" -> ChipsEnabled_part_003(st, msgs)

\* String.prototype.trim over the texts of the model: a text is a core
\* between two pads of white space
Pads == { "", " " }

\* a text of n characters
RECURSIVE Chars(_)
Chars(n) ==
    IF n = 0 THEN ""
    ELSE IF n % 2 = 0 THEN LET half == Chars(n \div 2) IN half \o half
    ELSE "x" \o Chars(n - 1)

MaxMessageLength == 2000

\* a text one character longer than formSchema allows
LongText == Chars(MaxMessageLength + 1)

Cores == { "", "hi", LongText }
Trim(text) == CHOOSE c \in Cores : \E l \in Pads, r \in Pads : text = l \o c \o r

\* what the user may have typed into the field
FieldValues == { "", " ", "hi", LongText }

QuickStartTexts == { "Create a detailed 1-week Instagram content plan" }

\* formSchema: z.string().min(1).max(2000)
formSchema(text) == Len(text) >= 1 /\ Len(text) <= MaxMessageLength

\* onSubmit's guard before sendMessage
OnSubmitSends_page(text) == Trim(text) # ""
OnSubmitSends_part_002(text) == Trim(text) # ""
OnSubmitSends_part_003(text) == TRUE
OnSubmitSends(v, text) ==
    CASE v = "page" -> OnSubmitSends_page(text)
      [] v = "part_002" -> OnSubmitSends_part_002(text)
      [] v = "part_003" -> OnSubmitSends_part_003(text)

\* the streams a turn of the chat session may receive from POST: a denial,
\* an answer with reasoning, an answer after a tool round that succeeds or
\* fails
TurnStreams ==
    { DenialStream([flagged |-> TRUE, denialMessage |-> <<>>]),
      GenStream([tool |-> "webSearch", toolFails |-> FALSE, reasons |-> TRUE], 0),
      GenStream([tool |-> "webSearch", toolFails |-> FALSE, reasons |-> FALSE], 1),
      GenStream([tool |-> "vectorDatabaseSearch", toolFails |-> TRUE, reasons |-> FALSE], 1) }

UserMessageId(n) == "user-" \o ToString(n)
AssistantMessageId(n) == "asst-" \o ToString(n)

\* useChat sendMessage({text}): the user message is pushed, the status is
\* "submitted", a response is started and becomes the active response
sendMessage(text) ==
    /\ Len(resp) < MaxTurns
    /\ Len(messages) + 2 <= MaxConversation
    /\ \E wire \in TurnStreams :
         resp' = Append(resp,
                   [ wire |-> wire, next |-> 0, id |-> AssistantMessageId(Len(resp) + 1),
                     parts |-> <<>>, activeText |-> <<>>, activeReasoning |-> <<>>,
                     phase |-> "open", epoch |-> clears ])
    /\ messages' = Append(messages,
                     [ id |-> UserMessageId(Len(resp) + 1), role |-> "user",
                       parts |-> <<Part("text", "", text, "")>> ])
    /\ status' = "submitted"
    /\ active' = Len(resp) + 1

\* form.handleSubmit(onSubmit)() with `text` in the field: validation, then
\* onSubmit (sendMessage and form.reset unless it returns early)
handleSubmitWrapper(text) ==
    /\ IF formSchema(text) /\ OnSubmitSends(variant, text)
       THEN /\ sendMessage(text)
            /\ field' = ""
       ELSE /\ field' = text
            /\ UNCHANGED <<messages, status, resp, active>>
    /\ UNCHANGED variant
    /\ UNCHANGED <<serverVars, storeVars, imageVars, dialogueVars>>

\* the user has `text` in the field and presses Enter (onKeyDown)
SubmitByEnter ==
    /\ ~InputDisabled(variant, status)
    /\ \E text \in FieldValues : handleSubmitWrapper(text)

\* the user has `text` in the field and clicks the send button, which is
\* disabled while the trimmed field is empty
SubmitByButton ==
    /\ SendButtonShown(variant, status)
    /\ \E text \in FieldValues :
         /\ Trim(text) # ""
         /\ handleSubmitWrapper(text)

\* click on a quick-start chip
handleQuickQuestion ==
    /\ ChipsEnabled(variant, status, messages)
    /\ \E text \in QuickStartTexts : sendMessage(text)
    /\ UNCHANGED <<variant, field>>
    /\ UNCHANGED <<serverVars, storeVars, imageVars, dialogueVars>>

\* what is left of a response once its request has returned
Ended(r, phase) ==
    [ wire |-> <<>>, next |-> 0, id |-> r.id, parts |-> <<>>,
      activeText |-> <<>>, activeReasoning |-> <<>>, phase |-> phase,
      epoch |-> r.epoch ]

\* the message of response t written to the conversation: the last message
\* is replaced when it is this response's message, else the message is pushed
WriteMessage(msgs, r) ==
    LET m == [id |-> r.id, role |-> "assistant", parts |-> r.parts]
    IN  IF msgs # <<>> /\ msgs[Len(msgs)].id = r.id
        THEN [msgs EXCEPT ![Len(msgs)] = m]
        ELSE Append(msgs, m)

\* the next event of an open response arrives and is applied
ApplyNext ==
    /\ \E t \in 1 .. Len(resp) :
         /\ resp[t].phase = "open"
         /\ resp[t].next < Len(resp[t].wire)
         /\ LET r == resp[t]
                st == ApplyChunk(r, r.wire[r.next + 1])
                r2 == [r EXCEPT !.next = r.next + 1, !.parts = st.parts,
                                !.activeText = st.activeText,
                                !.activeReasoning = st.activeReasoning]
            IN  /\ resp' = [resp EXCEPT ![t] = r2]
                /\ IF st.write
                   THEN /\ Len(WriteMessage(messages, r2)) <= MaxConversation
                        /\ messages' = WriteMessage(messages, r2)
                        /\ status' = "streaming"
                   ELSE UNCHANGED <<messages, status>>
    /\ UNCHANGED <<variant, field, active>>
    /\ UNCHANGED <<serverVars, storeVars, imageVars, dialogueVars>>

\* the stream of an open response ends after its last event
StreamEnds ==
    /\ \E t \in 1 .. Len(resp) :
         /\ resp[t].phase = "open"
         /\ resp[t].next = Len(resp[t].wire)
         /\ resp' = [resp EXCEPT ![t] = Ended(resp[t], "closed")]
    /\ status' = "ready"
    /\ active' = 0
    /\ UNCHANGED <<variant, messages, field>>
    /\ UNCHANGED <<serverVars, storeVars, imageVars, dialogueVars>>

\* the transport fails before the stream's end
StreamFails ==
    /\ \E t \in 1 .. Len(resp) :
         /\ resp[t].phase = "open"
         /\ resp[t].next < Len(resp[t].wire)
         /\ resp' = [resp EXCEPT ![t] = Ended(resp[t], "failed")]
    /\ status' = "error"
    /\ active' = 0
    /\ UNCHANGED <<variant, messages, field>>
    /\ UNCHANGED <<serverVars, storeVars, imageVars, dialogueVars>>

\* useChat stop(): the active response is aborted
stop ==
    /\ Busy(status)
    /\ active # 0
    /\ resp' = [resp EXCEPT ![active] = Ended(resp[active], "aborted")]
    /\ status' = "ready"
    /\ active' = 0
    /\ UNCHANGED <<variant, messages, field>>
    /\ UNCHANGED <<serverVars, storeVars, imageVars, dialogueVars>>

\* click on the stop button
StopClick ==
    /\ StopButtonShown(variant, status)
    /\ stop

(***************************************************************************)
(* JavaScript values and JSON.  A value is [kind, str, num, keys, items]:  *)
(* kind is "undefined", "null", "bool", "num", "str", "arr" or "obj"; an   *)
(* object has its property names in keys and their values in items, in     *)
(* insertion order.  A JSON text is its sequence of tokens [t, s, n].      *)
(***************************************************************************)
JValue(kind, str, num, keys, items) ==
    [kind |-> kind, str |-> str, num |-> num, keys |-> keys, items |-> items]
JUndefined == JValue("undefined", "", 0, <<>>, <<>>)
JNull == JValue("null", "", 0, <<>>, <<>>)
JBool(b) == JValue("bool", IF b THEN "true" ELSE "false", 0, <<>>, <<>>)
JNum(n) == JValue("num", "", n, <<>>, <<>>)
JStr(str) == JValue("str", str, 0, <<>>, <<>>)
JArr(items) == JValue("arr", "", 0, <<>>, items)
JObj(keys, items) == JValue("obj", "", 0, keys, items)

Tok(t) == [t |-> t, s |-> "", n |-> 0]
StrTok(str) == [t |-> "str", s |-> str, n |-> 0]
NumTok(n) == [t |-> "num", s |-> "", n |-> n]
LitTok(word) == [t |-> "lit", s |-> word, n |-> 0]

RECURSIVE Stringify(_), StringifyItems(_), StringifyMembers(_, _)
\* JSON.stringify(value); undefined in an array is written as null
Stringify(v) ==
    CASE v.kind = "num" -> <<NumTok(v.num)>>
      [] v.kind = "str" -> <<StrTok(v.str)>>
      [] v.kind = "bool" -> <<LitTok(v.str)>>
      [] v.kind = "arr" -> <<Tok("[")>> \o StringifyItems(v.items) \o <<Tok("]")>>
      [] v.kind = "obj" -> <<Tok("{")>> \o StringifyMembers(v.keys, v.items) \o <<Tok("}")>>
      [] OTHER -> <<LitTok("null")>>

StringifyItems(items) ==
    IF items = <<>> THEN <<>>
    ELSE Stringify(Head(items))
            \o (IF Len(items) > 1 THEN <<Tok(",")>> \o StringifyItems(Tail(items)) ELSE <<>>)

\* a property whose value is undefined is left out
StringifyMembers(keys, items) ==
    IF keys = <<>> THEN <<>>
    ELSE LET rest == StringifyMembers(Tail(keys), Tail(items))
         IN  IF Head(items).kind = "undefined" THEN rest
             ELSE <<StrTok(Head(keys)), Tok(":")>> \o Stringify(Head(items))
                     \o (IF rest = <<>> THEN <<>> ELSE <<Tok(",")>> \o rest)

Parsed(v, rest) == [ok |-> TRUE, v |-> v, rest |-> rest]
SyntaxError == [ok |-> FALSE, v |-> JUndefined, rest |-> <<>>]

\* obj[key] = value: a repeated name keeps its place and takes the last value
SetMember(keys, items, key, value) ==
    IF \E i \in 1 .. Len(keys) : keys[i] = key
    THEN [ keys |-> keys,
           items |-> [ i \in 1 .. Len(items) |-> IF keys[i] = key THEN value ELSE items[i] ] ]
    ELSE [ keys |-> Append(keys, key), items |-> Append(items, value) ]

RECURSIVE ParseValue(_), ParseElements(_, _), ParseMembers(_, _, _)
\* the JSON grammar: one value at the head of the tokens
ParseValue(toks) ==
    IF toks = <<>> THEN SyntaxError
    ELSE LET h == Head(toks)
             r == Tail(toks)
         IN  CASE h.t = "str" -> Parsed(JStr(h.s), r)
               [] h.t = "num" -> Parsed(JNum(h.n), r)
               [] h.t = "lit" /\ h.s = "null" -> Parsed(JNull, r)
               [] h.t = "lit" /\ h.s = "true" -> Parsed(JBool(TRUE), r)
               [] h.t = "lit" /\ h.s = "false" -> Parsed(JBool(FALSE), r)
               [] h.t = "[" ->
                    IF r # <<>> /\ Head(r).t = "]"
                    THEN Parsed(JArr(<<>>), Tail(r))
                    ELSE ParseElements(r, <<>>)
               [] h.t = "{" ->
                    IF r # <<>> /\ Head(r).t = "}"
                    THEN Parsed(JObj(<<>>, <<>>), Tail(r))
                    ELSE ParseMembers(r, <<>>, <<>>)
               [] OTHER -> SyntaxError

ParseElements(toks, acc) ==
    LET e == ParseValue(toks)
    IN  IF ~e.ok \/ e.rest = <<>> THEN SyntaxError
        ELSE IF Head(e.rest).t = "]" THEN Parsed(JArr(Append(acc, e.v)), Tail(e.rest))
        ELSE IF Head(e.rest).t = "," THEN ParseElements(Tail(e.rest), Append(acc, e.v))
        ELSE SyntaxError

ParseMembers(toks, keys, items) ==
    IF Len(toks) < 3 \/ toks[1].t # "str" \/ toks[2].t # ":" THEN SyntaxError
    ELSE LET e == ParseValue(SubSeq(toks, 3, Len(toks)))
             obj == SetMember(keys, items, toks[1].s, e.v)
         IN  IF ~e.ok \/ e.rest = <<>> THEN SyntaxError
             ELSE IF Head(e.rest).t = "}" THEN Parsed(JObj(obj.keys, obj.items), Tail(e.rest))
             ELSE IF Head(e.rest).t = "," THEN ParseMembers(Tail(e.rest), obj.keys, obj.items)
             ELSE SyntaxError

\* JSON.parse(text): ok is FALSE when it throws
JSONparse(toks) ==
    LET r == ParseValue(toks)
    IN  IF r.ok /\ r.rest = <<>> THEN r ELSE SyntaxError

\* value[name] of a value that is neither null nor undefined
GetProp(v, name) ==
    IF v.kind = "obj" /\ \E i \in 1 .. Len(v.keys) : v.keys[i] = name
    THEN v.items[CHOOSE i \in 1 .. Len(v.keys) : v.keys[i] = name]
    ELSE JUndefined

Truthy(v) ==
    CASE v.kind \in { "undefined", "null" } -> FALSE
      [] v.kind = "bool" -> v.str = "true"
      [] v.kind = "num" -> v.num # 0
      [] v.kind = "str" -> v.str # ""
      [] OTHER -> TRUE

\* a || b
OrElse(a, b) == IF Truthy(a) THEN a ELSE b

(***************************************************************************)
(* The persisted snapshot: loadMessagesFromStorage, saveMessagesToStorage  *)
(***************************************************************************)
Maybe(present, value) == IF present THEN <<value>> ELSE <<>>

\* a part of a message as a JavaScript object
JsOfPart(part) ==
    LET keys == <<"type">> \o Maybe(part.id # "", "toolCallId")
                    \o Maybe(part.type # "step-start", "text")
                    \o Maybe(part.state # "", "state")
        items == <<JStr(part.type)>> \o Maybe(part.id # "", JStr(part.id))
                    \o Maybe(part.type # "step-start", JStr(part.text))
                    \o Maybe(part.state # "", JStr(part.state))
    IN  JObj(keys, items)

JsOfMessage(m) ==
    JObj(<<"id", "role", "parts">>,
         << JStr(m.id), JStr(m.role),
            JArr([ i \in 1 .. Len(m.parts) |-> JsOfPart(m.parts[i]) ]) >>)

JsOfMessages(msgs) == JArr([ i \in 1 .. Len(msgs) |-> JsOfMessage(msgs[i]) ])

JsOfDurations(durs) ==
    JObj([ i \in 1 .. Len(durs) |-> durs[i].key ],
         [ i \in 1 .. Len(durs) |-> JNum(durs[i].value) ])

\* the messages and durations of the page read from JavaScript values
PartOfJs(j) ==
    Part(GetProp(j, "type").str, GetProp(j, "toolCallId").str,
         GetProp(j, "text").str, GetProp(j, "state").str)

MessagesOfJs(j) ==
    [ i \in 1 .. Len(j.items) |->
        [ id |-> GetProp(j.items[i], "id").str,
          role |-> GetProp(j.items[i], "role").str,
          parts |-> [ k \in 1 .. Len(GetProp(j.items[i], "parts").items) |->
                        PartOfJs(GetProp(j.items[i], "parts").items[k]) ] ] ]

DurationsOfJs(j) ==
    [ i \in 1 .. Len(j.keys) |-> [key |-> j.keys[i], value |-> j.items[i].num] ]

EmptySnapshot == [messages |-> JArr(<<>>), durations |-> JObj(<<>>, <<>>)]

\* loadMessagesFromStorage in the browser; everything it may throw is caught
loadMessagesFromStorage(store) ==
    IF ~store.present \/ store.text = <<>> THEN EmptySnapshot
    ELSE LET parsed == JSONparse(store.text)
         IN  IF ~parsed.ok THEN EmptySnapshot
             ELSE IF parsed.v.kind = "null" THEN EmptySnapshot
             ELSE [ messages |-> OrElse(GetProp(parsed.v, "messages"), JArr(<<>>)),
                    durations |-> OrElse(GetProp(parsed.v, "durations"), JObj(<<>>, <<>>)) ]

\* saveMessagesToStorage that leaves the durations out of the data
saveMessagesToStorage_NoDurations(msgs, durs) ==
    [ present |-> TRUE,
      text |-> Stringify(JObj(<<"messages">>, <<JsOfMessages(msgs)>>)) ]

\* saveMessagesToStorage in the browser: the value of localStorage afterwards
saveMessagesToStorage(msgs, durs) ==
    [ present |-> TRUE,
      text |-> Stringify(JObj(<<"messages", "durations">>,
                              <<JsOfMessages(msgs), JsOfDurations(durs)>>)) ]

\* `welcome-${Date.now()}`: the n-th welcome message of the session
WelcomeMessage(n) ==
    [ id |-> "welcome-" \o ToString(n), role |-> "assistant",
      parts |-> <<Part("text", "", "Welcome", "")>> ]

\* conversations and duration maps a page may hold
Conversations ==
    { <<>>,
      <<WelcomeMessage(0)>>,
      << [id |-> "user-1", role |-> "user", parts |-> <<Part("text", "", "hi", "")>>],
         [id |-> "asst-1", role |-> "assistant",
          parts |-> Replay(GenStream([tool |-> "webSearch", toolFails |-> FALSE,
                                      reasons |-> TRUE], 1))] >> }

DurationMaps ==
    { <<>>,
      <<[key |-> "asst-1-2", value |-> 3]>>,
      <<[key |-> "asst-1-2", value |-> 0], [key |-> "asst-1-5", value |-> 12]>> }

\* values of localStorage["chat-messages"] that no save of the page wrote:
\* the empty text, texts that are not JSON, JSON that is no snapshot
ForeignTexts ==
    { <<>>,
      <<LitTok("oops")>>,
      <<Tok("{"), StrTok("messages"), Tok(":"), Tok("[")>>,
      <<Tok("["), NumTok(1), Tok(","), Tok("]")>>,
      <<LitTok("null")>>,
      <<LitTok("true")>>,
      <<NumTok(5)>>,
      <<NumTok(0)>>,
      <<StrTok("hello")>>,
      <<Tok("["), Tok("]")>>,
      <<Tok("{"), Tok("}")>>,
      <<Tok("{"), StrTok("messages"), Tok(":"), LitTok("null"), Tok("}")>>,
      <<Tok("{"), StrTok("messages"), Tok(":"), NumTok(5), Tok("}")>>,
      <<Tok("{"), StrTok("messages"), Tok(":"), StrTok("none"), Tok("}")>>,
      <<Tok("{"), StrTok("messages"), Tok(":"), Tok("{"), Tok("}"), Tok("}")>>,
      <<Tok("{"), StrTok("messages"), Tok(":"), Tok("["), Tok("]"), Tok(","),
        StrTok("durations"), Tok(":"), NumTok(5), Tok("}")>> }

StoredValues ==
    { [present |-> FALSE, text |-> <<>>] }
        \cup { [present |-> TRUE, text |-> t] : t \in ForeignTexts }
        \cup { saveMessagesToStorage(c, d) : c \in Conversations, d \in DurationMaps }

\* saveMessagesToStorage(messages, durations)
SaveSnapshot ==
    /\ storePc = "start"
    /\ storage' = saveMessagesToStorage(messages, durations)
    /\ storePc' = "saved"
    /\ UNCHANGED <<loaded, durations, isClient, savedDeps, welcomeShown,
                   welcomeTimers, clears>>
    /\ UNCHANGED <<serverVars, clientVars, imageVars, dialogueVars>>

\* stored = loadMessagesFromStorage()
LoadSnapshot ==
    /\ storePc \in { "start", "saved" }
    /\ loaded' = <<loadMessagesFromStorage(storage)>>
    /\ storePc' = IF storePc = "saved" THEN "reloaded" ELSE "loaded"
    /\ UNCHANGED <<storage, durations, isClient, savedDeps, welcomeShown,
                   welcomeTimers, clears>>
    /\ UNCHANGED <<serverVars, clientVars, imageVars, dialogueVars>>

\* a page holding a conversation and durations, over any stored value
SnapshotInit ==
    /\ variant \in Variants
    /\ messages \in Conversations
    /\ status = "ready"
    /\ field = ""
    /\ resp = <<>>
    /\ active = 0
    /\ storage \in StoredValues
    /\ loaded = <<>>
    /\ storePc = "start"
    /\ durations \in DurationMaps
    /\ isClient = TRUE
    /\ savedDeps = <<>>
    /\ welcomeShown = FALSE
    /\ welcomeTimers = 0
    /\ clears = 0

(***************************************************************************)
(* The page and its snapshot: effects, durations, clearChat                *)
(***************************************************************************)
\* SaveEffectDue without the test of isClient
SaveEffectDue_Unguarded == savedDeps # << [messages |-> messages, durations |-> durations] >>

\* the save effect runs when messages or durations changed since it last ran
SaveEffectDue == isClient /\ savedDeps # << [messages |-> messages, durations |-> durations] >>

\* a save effect that writes the conversation without the durations
SaveEffect_MessagesOnly ==
    /\ SaveEffectDue
    /\ storage' = saveMessagesToStorage(messages, <<>>)
    /\ savedDeps' = << [messages |-> messages, durations |-> durations] >>
    /\ UNCHANGED <<loaded, storePc, durations, isClient, welcomeShown,
                   welcomeTimers, clears>>
    /\ UNCHANGED <<serverVars, clientVars, imageVars, dialogueVars>>

\* useEffect(() => { if (isClient) saveMessagesToStorage(messages, durations) })
SaveEffect ==
    /\ SaveEffectDue
    /\ storage' = saveMessagesToStorage(messages, durations)
    /\ savedDeps' = << [messages |-> messages, durations |-> durations] >>
    /\ UNCHANGED <<loaded, storePc, durations, isClient, welcomeShown,
                   welcomeTimers, clears>>
    /\ UNCHANGED <<serverVars, clientVars, imageVars, dialogueVars>>

\* `${message.id}-${i}`, i counting from 0
DurationKey(message, i) == message.id \o "-" \o ToString(i - 1)

\* an update that builds the map from the new entry alone
SetDuration_Alone(durs, key, duration) == << [key |-> key, value |-> duration] >>

\* {...prev, [key]: duration}
SetDuration(durs, key, duration) ==
    IF \E i \in 1 .. Len(durs) : durs[i].key = key
    THEN [ i \in 1 .. Len(durs) |->
             IF durs[i].key = key THEN [key |-> key, value |-> duration] ELSE durs[i] ]
    ELSE Append(durs, [key |-> key, value |-> duration])

\* a ReasoningPart on the page reports its duration
handleDurationChange ==
    /\ \E k \in 1 .. Len(messages) :
         /\ messages[k].role = "assistant"
         /\ \E i \in 1 .. Len(messages[k].parts) :
              /\ messages[k].parts[i].type = "reasoning"
              /\ durations' = SetDuration(durations, DurationKey(messages[k], i), 3)
              /\ durations' # durations
    /\ UNCHANGED <<storage, loaded, storePc, isClient, savedDeps, welcomeShown,
                   welcomeTimers, clears>>
    /\ UNCHANGED <<serverVars, clientVars, imageVars, dialogueVars>>

\* a clearChat that resets the state and leaves localStorage as it is
clearChat_page_NoSave ==
    /\ messages' = <<>>
    /\ durations' = <<>>
    /\ storage' = storage
    /\ welcomeShown' = FALSE
    /\ welcomeTimers' = welcomeTimers + 1

\* clearChat of page.tsx and part_002: the welcome message is re-added by a
\* timer
clearChat_page ==
    /\ messages' = <<>>
    /\ durations' = <<>>
    /\ storage' = saveMessagesToStorage(<<>>, <<>>)
    /\ welcomeShown' = FALSE
    /\ welcomeTimers' = welcomeTimers + 1

\* clearChat of part_003
clearChat_part_003 ==
    /\ messages' = <<>>
    /\ durations' = <<>>
    /\ storage' = saveMessagesToStorage(<<>>, <<>>)
    /\ UNCHANGED <<welcomeShown, welcomeTimers>>

\* click on the clear button
clearChat ==
    /\ clears < MaxClears
    /\ clears' = clears + 1
    /\ IF variant = "part_003" THEN clearChat_part_003 ELSE clearChat_page
    /\ UNCHANGED <<loaded, storePc, isClient, savedDeps>>
    /\ UNCHANGED <<variant, status, field, resp, active>>
    /\ UNCHANGED <<serverVars, imageVars, dialogueVars>>

\* the welcome messages made since the page was mounted; Date.now() gives
\* each its own id
WelcomesMade == clears - welcomeTimers

\* a callback that adds the welcome message to the conversation it finds
WelcomeTimer_Appends ==
    /\ welcomeTimers > 0
    /\ welcomeTimers' = welcomeTimers - 1
    /\ messages' = Append(messages, WelcomeMessage(WelcomesMade + 1))
    /\ storage' = saveMessagesToStorage(<<WelcomeMessage(WelcomesMade + 1)>>, <<>>)
    /\ welcomeShown' = TRUE
    /\ UNCHANGED <<loaded, storePc, durations, isClient, savedDeps, clears>>
    /\ UNCHANGED <<variant, status, field, resp, active>>
    /\ UNCHANGED <<serverVars, imageVars, dialogueVars>>

\* the setTimeout callback of clearChat
WelcomeTimer ==
    /\ welcomeTimers > 0
    /\ welcomeTimers' = welcomeTimers - 1
    /\ messages' = <<WelcomeMessage(WelcomesMade + 1)>>
    /\ storage' = saveMessagesToStorage(<<WelcomeMessage(WelcomesMade + 1)>>, <<>>)
    /\ welcomeShown' = TRUE
    /\ UNCHANGED <<loaded, storePc, durations, isClient, savedDeps, clears>>
    /\ UNCHANGED <<variant, status, field, resp, active>>
    /\ UNCHANGED <<serverVars, imageVars, dialogueVars>>

\* the stored values a session of the page starts from
SessionStarts ==
    { [present |-> FALSE, text |-> <<>>] }
        \cup { saveMessagesToStorage(c, d) :
                 c \in Conversations, d \in { x \in DurationMaps : Len(x) = 1 } }

\* the page once mounted over the stored value s0: stored was loaded, the
\* mount effect set isClient, durations and messages, the save effect ran,
\* and the welcome effect added the welcome message to an empty conversation
MountedOver(s0) ==
    LET stored == loadMessagesFromStorage(s0)
        initialMessages == MessagesOfJs(stored.messages)
        welcomes == Len(initialMessages) = 0
    IN  /\ loaded = <<stored>>
        /\ storePc = "loaded"
        /\ isClient = TRUE
        /\ durations = DurationsOfJs(stored.durations)
        /\ savedDeps = << [messages |-> initialMessages,
                           durations |-> DurationsOfJs(stored.durations)] >>
        /\ welcomeShown = welcomes
        /\ messages = IF welcomes THEN <<WelcomeMessage(0)>> ELSE initialMessages
        /\ storage = IF welcomes
                     THEN saveMessagesToStorage(<<WelcomeMessage(0)>>, <<>>)
                     ELSE saveMessagesToStorage(initialMessages,
                                                DurationsOfJs(stored.durations))

\* the first render of Chat: stored is read and useChat starts with its
\* messages
FirstRender ==
    /\ storePc = "unmounted"
    /\ storePc' = "rendered"
    /\ loaded' = <<loadMessagesFromStorage(storage)>>
    /\ messages' = MessagesOfJs(loadMessagesFromStorage(storage).messages)
    /\ UNCHANGED <<storage, durations, isClient, savedDeps, welcomeShown,
                   welcomeTimers, clears>>
    /\ UNCHANGED <<variant, status, field, resp, active>>
    /\ UNCHANGED <<serverVars, imageVars, dialogueVars>>

\* useEffect(() => { setIsClient(true); setDurations(stored.durations);
\*                   setMessages(stored.messages) }, [])
MountEffect ==
    /\ storePc = "rendered"
    /\ storePc' = "mounted"
    /\ isClient' = TRUE
    /\ durations' = DurationsOfJs(loaded[1].durations)
    /\ messages' = MessagesOfJs(loaded[1].messages)
    /\ UNCHANGED <<storage, loaded, savedDeps, welcomeShown, welcomeTimers, clears>>
    /\ UNCHANGED <<variant, status, field, resp, active>>
    /\ UNCHANGED <<serverVars, imageVars, dialogueVars>>

\* the "initial assistant message" effect, run once isClient is true
WelcomeEffect ==
    /\ storePc = "mounted"
    /\ storePc' = "loaded"
    /\ IF isClient /\ Len(loaded[1].messages.items) = 0 /\ ~welcomeShown
       THEN /\ messages' = <<WelcomeMessage(0)>>
            /\ storage' = saveMessagesToStorage(<<WelcomeMessage(0)>>, <<>>)
            /\ welcomeShown' = TRUE
       ELSE UNCHANGED <<messages, storage, welcomeShown>>
    /\ UNCHANGED <<loaded, durations, isClient, savedDeps, welcomeTimers, clears>>
    /\ UNCHANGED <<variant, status, field, resp, active>>
    /\ UNCHANGED <<serverVars, imageVars, dialogueVars>>

\* the page before its first render in the browser
SessionInit ==
    /\ variant \in Variants
    /\ status = "ready"
    /\ field = ""
    /\ resp = <<>>
    /\ active = 0
    /\ messages = <<>>
    /\ storage \in SessionStarts
    /\ loaded = <<>>
    /\ storePc = "unmounted"
    /\ durations = <<>>
    /\ isClient = FALSE
    /\ savedDeps = <<>>
    /\ welcomeShown = FALSE
    /\ welcomeTimers = 0
    /\ clears = 0

ServerInit ==
    /\ reqMessages \in Requests
    /\ script \in Scripts
    /\ pc = "request"
    /\ gateInputs = <<>>
    /\ moderationResult = <<>>
    /\ modelCalls = 0
    /\ toolCalls = 0
    /\ toolsInFlight = {}
    /\ out = <<>>

\* the server as the chat session's specification leaves it
ServerIdle ==
    /\ reqMessages = <<>>
    /\ script = [tool |-> "webSearch", toolFails |-> FALSE, reasons |-> FALSE]
    /\ pc = "request"
    /\ gateInputs = <<>>
    /\ moderationResult = <<>>
    /\ modelCalls = 0
    /\ toolCalls = 0
    /\ toolsInFlight = {}
    /\ out = <<>>

ClientInit ==
    /\ variant \in Variants
    /\ messages = <<>>
    /\ status = "ready"
    /\ field = ""
    /\ resp = <<>>
    /\ active = 0

\* a session that resumes a stored conversation, which leaves room for one
\* more exchange
StoredConversation ==
    [ i \in 1 .. MaxConversation - 2 |->
        IF i % 2 = 1
        THEN [ id |-> "stored-" \o ToString(i), role |-> "user",
               parts |-> <<Part("text", "", "hi", "")>> ]
        ELSE [ id |-> "stored-" \o ToString(i), role |-> "assistant",
               parts |-> <<Part("text", "", "Hello", "done")>> ] ]

ResumedInit ==
    /\ variant \in Variants
    /\ messages = StoredConversation
    /\ status = "ready"
    /\ field = ""
    /\ resp = <<>>
    /\ active = 0

RECURSIVE Interleavings(_, _)
\* the ways two event sequences share one ordered channel
Interleavings(a, b) ==
    IF a = <<>> THEN { b }
    ELSE IF b = <<>> THEN { a }
    ELSE { <<Head(a)>> \o s : s \in Interleavings(Tail(a), b) }
            \cup { <<Head(b)>> \o s : s \in Interleavings(a, Tail(b)) }

\* one step of a response in which a text part and a part of another id
\* (text or reasoning) are streamed at the same time
InterleavedStreams ==
    LET one == << Ev("text-start", "t1", "", ""), Ev("text-delta", "t1", "", "ab"),
                  Ev("text-delta", "t1", "", "c"), Ev("text-end", "t1", "", "") >>
        two == << Ev("text-start", "t2", "", ""), Ev("text-delta", "t2", "", "x"),
                  Ev("text-delta", "t2", "", "y"), Ev("text-end", "t2", "", "") >>
        rsn == << Ev("reasoning-start", "r1", "", ""), Ev("reasoning-delta", "r1", "", "x"),
                  Ev("reasoning-end", "r1", "", "") >>
    IN  { StreamStart \o <<Ev("start-step", "", "", "")>> \o s \o StepFinish \o StreamFinish :
            s \in Interleavings(one, two) \cup Interleavings(one, rsn) }

\* the page right after the first message was sent, the response being one
\* of the interleaved streams
ReceivingInit ==
    /\ variant \in Variants
    /\ messages = << [ id |-> UserMessageId(1), role |-> "user",
                       parts |-> <<Part("text", "", "hi", "")>> ] >>
    /\ status = "submitted"
    /\ field = ""
    /\ resp \in { << [ wire |-> wire, next |-> 0, id |-> AssistantMessageId(1),
                        parts |-> <<>>, activeText |-> <<>>, activeReasoning |-> <<>>,
                        phase |-> "open", epoch |-> 0 ] >> : wire \in InterleavedStreams }
    /\ active = 1

\* the page as the server's specification leaves it
ClientIdle ==
    /\ variant = "page"
    /\ messages = <<>>
    /\ status = "ready"
    /\ field = ""
    /\ resp = <<>>
    /\ active = 0

\* the snapshot state as the other specifications leave it
StoreIdle ==
    /\ storage = [present |-> FALSE, text |-> <<>>]
    /\ loaded = <<>>
    /\ storePc = "start"
    /\ durations = <<>>
    /\ isClient = FALSE
    /\ savedDeps = <<>>
    /\ welcomeShown = FALSE
    /\ welcomeTimers = 0
    /\ clears = 0

(***************************************************************************)
(* The generateImage tool.  The image backend either rejects or resolves   *)
(* with a response value.                                                  *)
(***************************************************************************)
Returned(v) == [outcome |-> "returned", value |-> v]
Threw(what) == [outcome |-> "threw", value |-> JStr(what)]

\* value[0] of an array; undefined when the array is empty
First(v) == IF v.kind = "arr" /\ Len(v.items) > 0 THEN v.items[1] ELSE JUndefined

Nullish(v) == v.kind \in { "undefined", "null" }

\* the body of the try block: await the backend, then build the output from
\* response.data[0].url; reading a property of undefined or null throws
ImageTryBlock(prompt, backend) ==
    IF backend.rejects THEN Threw(backend.value.str)
    ELSE LET response == backend.value
             data == GetProp(response, "data")
         IN  IF Nullish(response) \/ Nullish(data) \/ Nullish(First(data))
             THEN Threw("TypeError")
             ELSE Returned(JObj(<<"imageUrl", "promptUsed">>,
                                <<GetProp(First(data), "url"), JStr(prompt)>>))

ImageFailure == JObj(<<"error">>, <<JStr("Failed to generate image. Please try again.")>>)

\* execute without its catch clause
generateImage_Uncaught(prompt, backend) == ImageTryBlock(prompt, backend)

\* generateImage.execute({prompt}): what the call returns or throws
generateImage(prompt, backend) ==
    LET tried == ImageTryBlock(prompt, backend)
    IN  IF tried.outcome = "threw" THEN Returned(ImageFailure) ELSE tried

ImagePrompts == { "", "a cat", "a red house at dusk", "logo", "x", "poster for a sale" }

ImageItem(url) == JObj(<<"url">>, <<JStr(url)>>)

\* what openai.images.generate may do
ImageBackends ==
    { [rejects |-> TRUE, value |-> JStr(e)] :
        e \in { "401 Incorrect API key", "429 Rate limit", "400 content_policy_violation",
                "fetch failed" } }
    \cup { [rejects |-> FALSE, value |-> v] :
             v \in { JObj(<<"created", "data">>, <<JNum(1), JArr(<<ImageItem("https://img/1.png")>>)>>),
                     JObj(<<"created", "data">>,
                          <<JNum(1), JArr(<<ImageItem("https://img/1.png"),
                                            ImageItem("https://img/2.png")>>)>>),
                     JObj(<<"created", "data">>,
                          <<JNum(1), JArr(<<JObj(<<"b64_json">>, <<JStr("iVBOR")>>)>>)>>),
                     JObj(<<"created", "data">>, <<JNum(1), JArr(<<>>)>>),
                     JObj(<<"created", "data">>, <<JNum(1), JNull>>),
                     JObj(<<"created">>, <<JNum(1)>>),
                     JUndefined } }

ImageInit ==
    /\ imagePrompt \in ImagePrompts
    /\ imageBackend \in ImageBackends
    /\ imageResult = <<>>

\* the tool as the other specifications leave it
ImageIdle ==
    /\ imagePrompt = ""
    /\ imageBackend = [rejects |-> TRUE, value |-> JStr("fetch failed")]
    /\ imageResult = <<>>

\* the call of execute settles
ExecuteImage ==
    /\ imageResult = <<>>
    /\ imageResult' = <<generateImage(imagePrompt, imageBackend)>>
    /\ UNCHANGED <<imagePrompt, imageBackend>>
    /\ UNCHANGED <<serverVars, clientVars, storeVars, dialogueVars>>

(***************************************************************************)
(* The turns of one conversation.  useChat sends the whole conversation    *)
(* with every request: the messages of the request before, the assistant   *)
(* message the page received for it, and the new user message.             *)
(***************************************************************************)
\* the assistant message of the finished request, as sent back to POST
AssistantReply ==
    [ role |-> "assistant",
      parts |-> << TextPart(IF moderationResult # <<>> /\ moderationResult[1].flagged
                            THEN DenialDelta(moderationResult[1])
                            ELSE "Hello") >> ]

\* what the user types in a turn of the conversation
DialogueTexts == { "a", "b" }

UserTurn(text) == [role |-> "user", parts |-> <<TextPart(text)>>]

\* the finished request is recorded and the next request of the
\* conversation arrives
SendFollowUp ==
    /\ pc = "done"
    /\ Len(turns) + 1 < MaxTurns
    /\ turns' = Append(turns, [ request |-> reqMessages,
                                 flagged |-> moderationResult # <<>>
                                                /\ moderationResult[1].flagged ])
    /\ \E text \in DialogueTexts :
         reqMessages' = reqMessages \o <<AssistantReply, UserTurn(text)>>
    /\ pc' = "request"
    /\ gateInputs' = <<>>
    /\ moderationResult' = <<>>
    /\ modelCalls' = 0
    /\ toolCalls' = 0
    /\ toolsInFlight' = {}
    /\ out' = <<>>
    /\ UNCHANGED script
    /\ UNCHANGED <<clientVars, storeVars, imageVars>>

DialogueInit ==
    /\ reqMessages \in { <<UserTurn(text)>> : text \in DialogueTexts }
    /\ script \in { s \in Scripts : ~s.reasons /\ s.tool = "webSearch" }
    /\ pc = "request"
    /\ gateInputs = <<>>
    /\ moderationResult = <<>>
    /\ modelCalls = 0
    /\ toolCalls = 0
    /\ toolsInFlight = {}
    /\ out = <<>>
    /\ turns = <<>>

\* the conversation as the other specifications leave it
DialogueIdle == turns = <<>>

(***************************************************************************)
(* Specifications                                                          *)
(***************************************************************************)
InitPOST == ServerInit /\ ClientIdle /\ StoreIdle /\ ImageIdle /\ DialogueIdle

NextPOST ==
    \/ POST_Receive
    \/ POST_Moderated
    \/ POST_ModerationThrows
    \/ ModelStep
    \/ ToolSettles

\* one request handled by POST
SpecPOST == InitPOST /\ [][NextPOST]_vars

\* one request handled by POST when the classifier, the model and the tools
\* each settle in the end
FairPOST ==
    /\ SpecPOST
    /\ WF_vars(POST_Receive)
    /\ WF_vars(POST_Moderated \/ POST_ModerationThrows)
    /\ WF_vars(ModelStep)
    /\ WF_vars(ToolSettles)

InitChat == ClientInit /\ ServerIdle /\ StoreIdle /\ ImageIdle /\ DialogueIdle

NextChat ==
    \/ SubmitByEnter
    \/ SubmitByButton
    \/ handleQuickQuestion
    \/ ApplyNext
    \/ StreamEnds
    \/ StreamFails
    \/ StopClick

\* one session of the chat page
SpecChat == InitChat /\ [][NextChat]_vars

InitTurn == ResumedInit /\ ServerIdle /\ StoreIdle /\ ImageIdle /\ DialogueIdle

\* the stored conversation has user messages, so the quick-start chips are
\* not rendered
NextTurn ==
    \/ SubmitByEnter
    \/ SubmitByButton
    \/ ApplyNext
    \/ StreamEnds
    \/ StreamFails
    \/ StopClick

\* a resumed session, in which one more exchange fits
SpecTurn == InitTurn /\ [][NextTurn]_vars

InitReceive == ReceivingInit /\ ServerIdle /\ StoreIdle /\ ImageIdle /\ DialogueIdle

NextReceive ==
    \/ ApplyNext
    \/ StreamEnds
    \/ StreamFails
    \/ StopClick

\* one response received, event by event
SpecReceive == InitReceive /\ [][NextReceive]_vars

InitSession == SessionInit /\ ServerIdle /\ ImageIdle /\ DialogueIdle

\* the page is mounted and the effects of its last render have run
EffectsFlushed == storePc = "loaded" /\ ~SaveEffectDue

\* React runs the effects of a render, in the order of their declaration,
\* before it handles the next event
NextSession ==
    \/ FirstRender
    \/ MountEffect
    \/ SaveEffect
    \/ ~SaveEffectDue /\ WelcomeEffect
    \/ EffectsFlushed /\ handleQuickQuestion
    \/ EffectsFlushed /\ ApplyNext
    \/ EffectsFlushed /\ StreamEnds
    \/ EffectsFlushed /\ StreamFails
    \/ EffectsFlushed /\ StopClick
    \/ EffectsFlushed /\ handleDurationChange
    \/ EffectsFlushed /\ clears < MaxSessionClears /\ clearChat
    \/ EffectsFlushed /\ WelcomeTimer

\* a session of the mounted page with its persisted snapshot
SpecSession == InitSession /\ [][NextSession]_vars

InitReset == SessionInit /\ ServerIdle /\ ImageIdle /\ DialogueIdle

NextReset ==
    \/ FirstRender
    \/ MountEffect
    \/ SaveEffect
    \/ ~SaveEffectDue /\ WelcomeEffect
    \/ storePc = "loaded" /\ handleDurationChange
    \/ storePc = "loaded" /\ clearChat
    \/ storePc = "loaded" /\ WelcomeTimer

\* the mount of the page and its resets; a click on clear and the timers
\* also run between a render and its effects
SpecReset == InitReset /\ [][NextReset]_vars

InitSnapshot == SnapshotInit /\ ServerIdle /\ ImageIdle /\ DialogueIdle

NextSnapshot ==
    \/ SaveSnapshot
    \/ LoadSnapshot

\* the two storage functions applied to the bounded inputs
SpecSnapshot == InitSnapshot /\ [][NextSnapshot]_vars

InitDialogue == DialogueInit /\ ClientIdle /\ StoreIdle /\ ImageIdle

NextDialogue ==
    \/ POST_Receive
    \/ POST_Moderated
    \/ POST_ModerationThrows
    \/ ModelStep
    \/ ToolSettles
    \/ SendFollowUp

\* the requests of one conversation, one after the other
SpecDialogue == InitDialogue /\ [][NextDialogue]_vars

InitImage == ImageInit /\ ServerIdle /\ ClientIdle /\ StoreIdle /\ DialogueIdle

NextImage == ExecuteImage

SpecImage == InitImage /\ [][NextImage]_vars

(***************************************************************************)
(* Properties of POST (SpecPOST)                                           *)
(***************************************************************************)
Flagged == moderationResult # <<>> /\ moderationResult[1].flagged

EventTypes(events) == [ i \in 1 .. Len(events) |-> events[i].type ]

\* the request has no user message, or the text parts of its latest user
\* message are all empty
NothingToModerate ==
    LET users == { i \in 1 .. Len(reqMessages) : reqMessages[i].role = "user" }
    IN  \/ users = {}
        \/ LET last == CHOOSE i \in users : \A j \in users : j <= i
           IN  \A k \in 1 .. Len(reqMessages[last].parts) :
                 reqMessages[last].parts[k].type = "text"
                    => reqMessages[last].parts[k].text = ""

\* C1: when the gate classifies the latest user text as flagged, the model
\* and the tools are never invoked for the turn: no model generation and no
\* tool execution is started, none is in flight, and the stream carries no
\* step or tool event.
C1_FlaggedNeverGenerates ==
    Flagged =>
        /\ modelCalls = 0
        /\ toolCalls = 0
        /\ toolsInFlight = {}
        /\ pc = "done"
        /\ \A i \in 1 .. Len(out) :
             out[i].type \notin { "start-step", "finish-step", "tool-input-available",
                                  "tool-output-available", "tool-output-error" }

\* C1 witness: a request with text was moderated, flagged, and answered
C1_FlaggedTurnDone ==
    /\ Flagged
    /\ pc = "done"
    /\ gateInputs # <<>>
    /\ gateInputs[1] # ""
    /\ out # <<>>

\* C2: the stream of a flagged turn is exactly start, text-start, text-delta,
\* text-end, finish under the one text id, the delta carrying denialMessage
\* or, when that is absent or empty, the fallback string; replayed, it is a
\* message of exactly one text part equal to the denial text.
C2_DenialStreamExact ==
    Flagged =>
        LET dm == moderationResult[1].denialMessage
            text == IF dm = <<>> \/ dm = <<"">>
                    THEN "Your message violates our guidelines. I can't answer that."
                    ELSE dm[1]
        IN  /\ EventTypes(out) = << "start", "text-start", "text-delta", "text-end", "finish" >>
            /\ out[2].id = "moderation-denial-text"
            /\ out[3].id = out[2].id
            /\ out[4].id = out[2].id
            /\ out[3].val = text
            /\ Replay(out) = << Part("text", "", text, "done") >>

\* C2 witness: a flagged turn whose result carries an empty denialMessage
C2_FallbackForEmptyDenial ==
    /\ Flagged
    /\ moderationResult[1].denialMessage = <<"">>
    /\ pc = "done"
    /\ Len(out) = 5

\* C3: while isContentFlagged was called and has returned no verdict, which
\* includes its having thrown, the turn does not proceed to generation: the
\* model is not invoked, nothing is streamed, and POST is waiting or has
\* failed with the error.
C3_NoVerdictNoGeneration ==
    (gateInputs # <<>> /\ moderationResult = <<>>) =>
        /\ pc \in { "moderating", "failed" }
        /\ modelCalls = 0
        /\ toolCalls = 0
        /\ out = <<>>

\* C3 witness: isContentFlagged threw and POST failed
C3_GateThrew ==
    /\ pc = "failed"
    /\ gateInputs # <<>>
    /\ moderationResult = <<>>

\* C4: with no user message, or a latest user message without text, the
\* gate is never called and POST goes straight to generation.
C4_EmptyInputSkipsGate ==
    NothingToModerate =>
        /\ gateInputs = <<>>
        /\ moderationResult = <<>>
        /\ pc \in { "request", "model", "tool", "done" }
        /\ pc # "request" => (out # <<>> /\ out[1].type = "start")

\* C4 witness: the latest user message has only empty text parts and the
\* model has generated
C4_EmptyTextGenerated ==
    /\ reqMessages # <<>>
    /\ reqMessages[Len(reqMessages)].role = "user"
    /\ reqMessages[Len(reqMessages)].parts = << TextPart(""), TextPart("") >>
    /\ gateInputs = <<>>
    /\ modelCalls > 0
    /\ pc = "done"

\* C8: a turn makes at most 10 model generations and 10 tool executions,
\* and once the tenth round trip has ended the turn is done with a normal
\* finish after the output produced so far, never failed.
C8_StepBudget ==
    /\ modelCalls <= 10
    /\ toolCalls <= 10
    /\ modelCalls > 0 => pc # "failed"
    /\ (modelCalls = 10 /\ pc \notin { "model", "tool" }) =>
          /\ pc = "done"
          /\ out[Len(out)].type = "finish"
          /\ Cardinality({ i \in 1 .. Len(out) :
                  out[i].type \in { "tool-output-available", "tool-output-error" } }) = toolCalls
          /\ \A i \in 1 .. Len(out) - 1 : out[i].type # "finish"

\* C8 witness: the model asked for a tool at every one of its 10 steps
C8_CapReached ==
    /\ modelCalls = 10
    /\ toolCalls = 10
    /\ pc = "done"

(***************************************************************************)
(* Properties of the chat page (SpecChat, SpecTurn)                        *)
(***************************************************************************)
AssistantIndexes == { k \in 1 .. Len(messages) : messages[k].role = "assistant" }

\* what the view makes of message k of the conversation
ViewOf(k) == AssistantMessage(messages[k], status, k = Len(messages))

ToolIndexes(parts) == { i \in 1 .. Len(parts) : IsToolPartType(parts[i].type) }

\* the events of response t applied so far
Applied(t) == SubSeq(resp[t].wire, 1, resp[t].next)

OpenResponses == { t \in 1 .. Len(resp) : resp[t].phase = "open" }

RECURSIVE EmittedKinds(_)
\* the kinds of part the producer opened, in the order of emission
EmittedKinds(events) ==
    IF events = <<>> THEN <<>>
    ELSE LET ev == Head(events)
             rest == EmittedKinds(Tail(events))
         IN  CASE ev.type = "start-step" -> <<"step-start">> \o rest
               [] ev.type = "text-start" -> <<"text">> \o rest
               [] ev.type = "reasoning-start" -> <<"reasoning">> \o rest
               [] ev.type = "tool-input-available" -> <<"tool-" \o ev.name>> \o rest
               [] OTHER -> rest

PartTypes(parts) == [ i \in 1 .. Len(parts) |-> parts[i].type ]

\* C5: while the status is submitted or streaming no user action starts
\* another turn.
C5_NoTurnWhileBusy == [][Busy(status) => Len(resp') = Len(resp)]_vars

\* C6: whenever the status is submitted or streaming the stop button is
\* there and stops the active response.
C6_StopAvailableWhileBusy ==
    Busy(status) => (StopButtonShown(variant, status) /\ active # 0)

\* C7: the message of a response that was stopped has no part left open.
C7_StoppedMessageClosed ==
    \A t \in 1 .. Len(resp) :
        resp[t].phase = "aborted" =>
            \A k \in AssistantIndexes :
                messages[k].id = resp[t].id =>
                    \A i \in 1 .. Len(messages[k].parts) :
                        messages[k].parts[i].state # "streaming"

C10_NoPartSkipped ==
    /\ \A t \in OpenResponses : PartTypes(resp[t].parts) = EmittedKinds(Applied(t))
    /\ \A k \in AssistantIndexes :
         \A i \in 1 .. Len(messages[k].parts) :
             /\ ViewOf(k)[i] # NullElement
             /\ ViewOf(k)[i].key = i

\* C10 as amended: the parts are in the order of emission, and the view
\* shows every text, reasoning and tool part at its index, in that order;
\* the step-start part the receiver adds at each step shows nothing.
C10_PartsInEmissionOrder ==
    /\ \A t \in OpenResponses : PartTypes(resp[t].parts) = EmittedKinds(Applied(t))
    /\ \A k \in AssistantIndexes :
         LET parts == messages[k].parts
         IN  /\ Len(ViewOf(k)) = Len(parts)
             /\ \A i \in 1 .. Len(parts) :
                  CASE parts[i].type = "step-start" -> ViewOf(k)[i] = NullElement
                    [] parts[i].type = "text" ->
                         ViewOf(k)[i].key = i /\ ViewOf(k)[i].component = "AssistantTextPart"
                    [] parts[i].type = "reasoning" ->
                         ViewOf(k)[i].key = i /\ ViewOf(k)[i].component = "ReasoningPart"
                    [] OTHER ->
                         /\ ViewOf(k)[i].key = i
                         /\ ViewOf(k)[i].component \in { "ToolCall", "ToolResult" }
                         /\ IsToolPartType(parts[i].type)

\* C10 witness: a whole answer with reasoning was received: step-start,
\* reasoning and text, in that order
C10_ReasonedAnswerShown ==
    \E k \in AssistantIndexes :
        /\ PartTypes(messages[k].parts) = << "step-start", "reasoning", "text" >>
        /\ messages[k].parts[3].state = "done"
        /\ status = "ready"

(***************************************************************************)
(* Properties of the receiver (SpecReceive)                                *)
(***************************************************************************)
RECURSIVE Openers(_)
\* the events that open a part, in the order of arrival
Openers(events) ==
    IF events = <<>> THEN <<>>
    ELSE IF Head(events).type \in { "start-step", "text-start", "reasoning-start",
                                    "tool-input-available" }
         THEN <<Head(events)>> \o Openers(Tail(events))
         ELSE Openers(Tail(events))

RECURSIVE DeltasOf(_, _)
\* the text-delta fragments of one id, concatenated in the order of arrival
DeltasOf(events, id) ==
    IF events = <<>> THEN ""
    ELSE IF Head(events).type = "text-delta" /\ Head(events).id = id
         THEN Head(events).val \o DeltasOf(Tail(events), id)
         ELSE DeltasOf(Tail(events), id)

\* C11: the text of every text part is the concatenation, in arrival order,
\* of the text-delta fragments that carry the part's id, whatever events of
\* other ids arrived between them; the message written to the conversation
\* carries the same text.
C11_TextIsConcatenatedDeltas ==
    \A t \in OpenResponses :
        LET parts == resp[t].parts
            opened == Openers(Applied(t))
        IN  /\ Len(opened) = Len(parts)
            /\ \A i \in 1 .. Len(parts) :
                 parts[i].type = "text" =>
                    /\ opened[i].type = "text-start"
                    /\ parts[i].text = DeltasOf(Applied(t), opened[i].id)
                    /\ \A k \in AssistantIndexes :
                         (messages[k].id = resp[t].id /\ i <= Len(messages[k].parts))
                            => messages[k].parts[i].text = parts[i].text

\* C11 witness: both fragments of t1 have arrived with events of another id
\* between them
C11_InterleavedTextComplete ==
    \E t \in OpenResponses :
        /\ resp[t].next = Len(resp[t].wire)
        /\ \E e \in 2 .. Len(resp[t].wire) - 1 :
             /\ resp[t].wire[e].id # "t1"
             /\ resp[t].wire[e - 1] = Ev("text-delta", "t1", "", "ab")
             /\ resp[t].wire[e + 1] = Ev("text-delta", "t1", "", "c")
        /\ \E i \in 1 .. Len(resp[t].parts) :
             resp[t].parts[i] = Part("text", "", "abc", "done")

(***************************************************************************)
(* Properties of the persisted snapshot (SpecSnapshot)                     *)
(***************************************************************************)
IsConversation(j) ==
    /\ j.kind = "arr"
    /\ \A i \in 1 .. Len(j.items) :
         /\ j.items[i].kind = "obj"
         /\ GetProp(j.items[i], "parts").kind = "arr"

IsDurationMap(j) ==
    /\ j.kind = "obj"
    /\ \A i \in 1 .. Len(j.items) : j.items[i].kind = "num"

\* the stored text parses to {messages: a conversation, durations: a map}
WellFormedSnapshot(store) ==
    /\ store.present
    /\ JSONparse(store.text).ok
    /\ JSONparse(store.text).v.kind = "obj"
    /\ IsConversation(GetProp(JSONparse(store.text).v, "messages"))
    /\ IsDurationMap(GetProp(JSONparse(store.text).v, "durations"))

\* C12: a snapshot saved and then loaded, with nothing in between, is the
\* (messages, durations) pair that was saved.
C12_SaveLoadRoundTrip ==
    storePc = "reloaded" =>
        /\ loaded[1].messages = JsOfMessages(messages)
        /\ loaded[1].durations = JsOfDurations(durations)
        /\ MessagesOfJs(loaded[1].messages) = messages
        /\ DurationsOfJs(loaded[1].durations) = durations

\* C12 witness: a conversation with a tool round and two durations came
\* back from the storage
C12_ConversationReloaded ==
    /\ storePc = "reloaded"
    /\ Len(messages) = 2
    /\ Len(durations) = 2
    /\ Len(MessagesOfJs(loaded[1].messages)[2].parts) >= 4

\* C13: a stored value that is missing, is not JSON or is not a well-formed
\* snapshot loads as the empty conversation and the empty duration map.
C13_CorruptLoadsEmpty ==
    (storePc = "loaded" /\ ~WellFormedSnapshot(storage)) => loaded[1] = EmptySnapshot

\* what loadMessagesFromStorage returns for a snapshot of (msgs, durs)
SnapshotOf(msgs, durs) ==
    [messages |-> JsOfMessages(msgs), durations |-> JsOfDurations(durs)]

\* no effect of the page is pending and no timer of clearChat is scheduled
Quiescent == isClient /\ ~SaveEffectDue /\ welcomeTimers = 0

\* C14: once the pending effects and timers have run, the stored snapshot is
\* the conversation and the duration map the page holds in memory.
C14_SnapshotFollowsMemory ==
    Quiescent => loadMessagesFromStorage(storage) = SnapshotOf(messages, durations)

\* C14 witness: after a clear, a turn with reasoning and a duration update the
\* page is quiescent and holds an answer and a duration.
C14_SettledAfterTurnAndClear ==
    /\ Quiescent
    /\ clears > 0
    /\ durations # <<>>
    /\ \E t \in 1 .. Len(resp) : resp[t].phase = "closed"
    /\ Len(messages) >= 2

\* the step in which a reset of the chat completes: the timer clearChat
\* scheduled fires, or clearChat returns having scheduled none
ResetCompletes ==
    \/ welcomeTimers' < welcomeTimers /\ welcomeTimers' = 0
    \/ clears' # clears /\ welcomeTimers' = 0

\* C15 as stated: when a reset of the chat has completed, scheduled work
\* included, the stored conversation and the stored durations are both empty.
C15_ResetLeavesNothingStored ==
    [][ResetCompletes => loadMessagesFromStorage(storage') = EmptySnapshot]_vars

\* C15 amended: clearChat itself leaves an empty conversation and an empty
\* duration map in the store; the timer it schedules in page.tsx and part_002
\* then stores the new welcome message alone, with an empty duration map.
C15_ClearEmptiesThenWelcomes ==
    [][ /\ (clears' # clears => loadMessagesFromStorage(storage') = EmptySnapshot)
        /\ (welcomeTimers' < welcomeTimers =>
               loadMessagesFromStorage(storage')
                   = SnapshotOf(<<WelcomeMessage(WelcomesMade + 1)>>, <<>>)) ]_vars

\* C15 witness: a conversation with a user message was cleared, the timer has
\* fired and the store holds the welcome message alone.
C15_WelcomeStoredAfterClear ==
    /\ clears > 0
    /\ welcomeTimers = 0
    /\ variant # "part_003"
    /\ resp # <<>>
    /\ messages = <<WelcomeMessage(clears)>>
    /\ loadMessagesFromStorage(storage) = SnapshotOf(<<WelcomeMessage(clears)>>, <<>>)

\* the assistant messages with this id that a turn which reached finish leaves
FinishedMessages(id) ==
    { [id |-> id, role |-> "assistant", parts |-> Replay(w)] : w \in TurnStreams }

\* C16: the message of a response whose transport failed before finish is
\* marked: as presented and as persisted it differs from every message of a
\* turn that reached finish.
C16_FailedMessageIsMarked ==
    \A t \in 1 .. Len(resp) : \A k \in AssistantIndexes :
        (resp[t].phase = "failed" /\ messages[k].id = resp[t].id) =>
            \A f \in FinishedMessages(resp[t].id) :
                \/ ViewOf(k) # AssistantMessage(f, "ready", k = Len(messages))
                \/ JsOfMessage(messages[k]) # JsOfMessage(f)

IsImageFailure(v) ==
    v.kind = "obj" /\ v.keys = <<"error">> /\ v.items[1].kind = "str"

IsImageOutput(v, prompt) ==
    /\ v.kind = "obj"
    /\ v.keys = <<"imageUrl", "promptUsed">>
    /\ v.items[2] = JStr(prompt)

\* C17: whatever the prompt and whatever the image backend does, execute
\* returns: an output value, or a value {error: string}; when the backend
\* rejects or its response has no data the value is {error: string}.
C17_ExecuteNeverThrows ==
    imageResult # <<>> =>
        /\ imageResult[1].outcome = "returned"
        /\ \/ IsImageFailure(imageResult[1].value)
           \/ IsImageOutput(imageResult[1].value, imagePrompt)
        /\ (imageBackend.rejects \/ Nullish(First(GetProp(imageBackend.value, "data"))))
              => IsImageFailure(imageResult[1].value)

\* C17 witness: the backend resolved with an empty data array and execute
\* returned the error value.
C17_NoDataReturnsError ==
    /\ imageResult # <<>>
    /\ ~imageBackend.rejects
    /\ GetProp(imageBackend.value, "data") = JArr(<<>>)
    /\ imageResult[1] = Returned(ImageFailure)

\* C18: a tool part on which a tool-output-error event was recorded is
\* treated as the result of its call: the view shows it as a ToolResult, not
\* as a ToolCall that is still pending.
C18_ErrorPartIsResult ==
    \A k \in AssistantIndexes : \A i \in ToolIndexes(messages[k].parts) :
        messages[k].parts[i].state = "output-error" =>
            ViewOf(k)[i].component = "ToolResult"

\* the indexes of the user messages of the request
UserIndexes == { k \in 1 .. Len(reqMessages) : reqMessages[k].role = "user" }

RECURSIVE TextsUpTo(_, _)
\* the texts of the text parts among the first n parts, in part order
TextsUpTo(parts, n) ==
    IF n = 0 THEN ""
    ELSE TextsUpTo(parts, n - 1)
            \o (IF parts[n].type = "text" THEN parts[n].text ELSE "")

\* C19: the moderation gate is called with the concatenation, in part order,
\* of the text parts of the last user message of the request and of nothing
\* else.
C19_GateReadsLatestUserText ==
    gateInputs # <<>> =>
        /\ UserIndexes # {}
        /\ LET last == CHOOSE k \in UserIndexes : \A j \in UserIndexes : j <= k
               parts == reqMessages[last].parts
           IN  gateInputs = << TextsUpTo(parts, Len(parts)) >>

\* C19 witness: the request holds an earlier user message with another text
\* and a last user message with a part that is no text; the gate was called
\* with the text of the last one.
C19_EarlierMessageIgnored ==
    /\ Len(reqMessages) = 2
    /\ reqMessages[1] = [role |-> "user", parts |-> <<TextPart("a")>>]
    /\ reqMessages[2] = [role |-> "user", parts |-> <<FilePart, TextPart("b")>>]
    /\ gateInputs = <<"b">>

ToolOutputTypes == { "tool-output-available", "tool-output-error" }

\* C20: at most one tool is executing at any time, and between two tool
\* calls of a turn the result of the earlier one is on the stream.
C20_ToolsOneAtATime ==
    /\ Cardinality(toolsInFlight) <= 1
    /\ \A i \in 1 .. Len(out) : \A j \in (i + 1) .. Len(out) :
          (out[i].type = "tool-input-available" /\ out[j].type = "tool-input-available") =>
              \E m \in (i + 1) .. (j - 1) :
                  out[m].type \in ToolOutputTypes /\ out[m].id = out[i].id

\* C20 witness: a turn ran three tools and each has settled.
C20_ThreeToolsInSequence ==
    /\ pc = "done"
    /\ toolCalls = 3
    /\ toolsInFlight = {}

\* the ids of the messages of a conversation
MessageIds(msgs) == { msgs[k].id : k \in 1 .. Len(msgs) }

\* C21: a step that is no clearChat removes no message from the
\* conversation: every message present before the step is present after it.
C21_OnlyClearDestroys ==
    [][clears' = clears => MessageIds(messages) \subseteq MessageIds(messages')]_vars

TurnEdge ==
    /\ (pc = "request" /\ pc' # pc) =>
          pc' = (IF NothingToModerate THEN "model" ELSE "moderating")
    /\ (pc = "moderating" /\ pc' # pc) =>
          \/ pc' = "failed" /\ moderationResult' = <<>>
          \/ /\ moderationResult' # <<>>
             /\ pc' = (IF moderationResult'[1].flagged THEN "done" ELSE "model")
    /\ pc = "model" => pc' \in { "model", "tool", "done" }
    /\ pc = "tool" => pc' \in { "tool", "model", "done" }
    /\ pc \in { "done", "failed" } => pc' = pc

IsPrefix(a, b) == Len(a) <= Len(b) /\ SubSeq(b, 1, Len(a)) = a

\* C23: when the model is invoked, the history of its request holds no user
\* message of an earlier turn that the gate flagged: the request of a denied
\* turn, which ends with the denied message, is no prefix of it.
C23_DeniedStaysOut ==
    modelCalls > 0 =>
        \A t \in 1 .. Len(turns) : turns[t].flagged => ~IsPrefix(turns[t].request, reqMessages)

\* the ids of the messages of the stored snapshot
StoredMessageIds ==
    LET stored == loadMessagesFromStorage(storage).messages
    IN  { stored.items[k].items[1].str : k \in 1 .. Len(stored.items) }

\* C24: once a clear and its timer have completed, the message of a turn
\* started before that clear is neither in the conversation nor in the
\* stored snapshot.
C24_ClearedTurnsStayOut ==
    welcomeTimers = 0 =>
        \A t \in 1 .. Len(resp) :
            resp[t].epoch < clears =>
                /\ resp[t].id \notin MessageIds(messages)
                /\ resp[t].id \notin StoredMessageIds

\* C25: nothing is written to the store before the mount effect has put the
\* stored messages and durations into the state, and the first save writes
\* back what was read.
C25_NoSaveBeforeLoad ==
    [][ /\ storePc \in { "unmounted", "rendered" } => storage' = storage
        /\ (savedDeps = <<>> /\ storage' # storage) =>
              /\ storePc = "mounted"
              /\ isClient
              /\ loadMessagesFromStorage(storage') = loaded[1] ]_vars

\* C25 witness: the page was mounted over a stored conversation with a
\* duration, the save effect has run and the store still holds both.
C25_StoredConversationKept ==
    /\ storePc = "mounted"
    /\ savedDeps # <<>>
    /\ Len(loaded[1].messages.items) = 2
    /\ Len(loaded[1].durations.keys) = 1
    /\ loadMessagesFromStorage(storage) = loaded[1]

\* the welcome messages of a conversation: assistant messages with an id
\* `welcome-...`
WelcomeIndexes(msgs) ==
    { k \in 1 .. Len(msgs) :
        /\ msgs[k].role = "assistant"
        /\ \E n \in 0 .. MaxClears : msgs[k].id = WelcomeMessage(n).id }

\* the mount of the page ends: the welcome effect has had its run
StartUpEnds == storePc = "mounted" /\ storePc' = "loaded"

\* the last timer that clearChat of page.tsx or part_002 scheduled fires
LastTimerFires == welcomeTimers = 1 /\ welcomeTimers' = 0

\* C26: the conversation never holds two welcome messages; the mount over
\* no stored messages ends with the conversation being one welcome message
\* and the mount over stored messages with the stored messages; and when the
\* timers of one or several calls of clearChat have fired the conversation
\* holds exactly one welcome message.
C26_OneWelcome ==
    /\ [](Cardinality(WelcomeIndexes(messages)) <= 1)
    /\ [][ /\ StartUpEnds =>
                 messages' = (IF Len(loaded[1].messages.items) = 0
                              THEN <<WelcomeMessage(0)>>
                              ELSE MessagesOfJs(loaded[1].messages))
           /\ LastTimerFires => Cardinality(WelcomeIndexes(messages')) = 1 ]_vars

\* C26 witness: clearChat was called twice before its first timer fired,
\* both timers have fired and the conversation is one welcome message.
C26_TwoClearsOneWelcome ==
    /\ clears = 2
    /\ welcomeTimers = 0
    /\ welcomeShown
    /\ messages = <<WelcomeMessage(2)>>

\* the texts the chat form is to reject: empty, white space only, or longer
\* than MaxMessageLength
RejectedTexts == { text \in FieldValues : Trim(text) = "" \/ Len(text) > MaxMessageLength }

UserTexts(msgs) ==
    { msgs[k].parts[1].text : k \in { i \in 1 .. Len(msgs) : msgs[i].role = "user" } }

\* C27: the conversation never holds a user message whose text is empty,
\* white space only or longer than 2000 characters, and a submit with such a
\* text in the field changes neither the conversation nor the status nor
\* the field.
C27_RejectedTextNotSent ==
    /\ [](UserTexts(messages) \cap RejectedTexts = {})
    /\ [][ field' # field /\ field' \in RejectedTexts \ {""} =>
             messages' = messages /\ status' = status ]_vars

\* a step in which a quick-start chip starts a turn: a response is added for
\* a user message with the text of a chip
QuickStartStep ==
    /\ Len(resp') = Len(resp) + 1
    /\ messages' # <<>>
    /\ messages'[Len(messages')].role = "user"
    /\ messages'[Len(messages')].parts[1].text \in QuickStartTexts

SaveThrows_page == FALSE
SaveThrows_part_002 == FALSE
SaveThrows_part_003 == TRUE
SaveThrows(v) ==
    CASE v = "page" -> SaveThrows_page
      [] v = "part_002" -> SaveThrows_part_002
      [] v = "part_003" -> SaveThrows_part_003

\* the save effect with a write that fails
SaveEffect_WriteFails ==
    /\ SaveEffectDue
    /\ savedDeps' = << [messages |-> messages, durations |-> durations] >>
    /\ storePc' = IF SaveThrows(variant) THEN "threw" ELSE storePc
    /\ UNCHANGED <<storage, loaded, durations, isClient, welcomeShown,
                   welcomeTimers, clears>>
    /\ UNCHANGED <<serverVars, clientVars, imageVars, dialogueVars>>

\* the welcome effect with a write that fails: setMessages comes before the
\* write, the assignment of the ref after it
WelcomeEffect_WriteFails ==
    /\ storePc = "mounted"
    /\ isClient /\ Len(loaded[1].messages.items) = 0 /\ ~welcomeShown
    /\ messages' = <<WelcomeMessage(0)>>
    /\ IF SaveThrows(variant)
       THEN storePc' = "threw" /\ welcomeShown' = welcomeShown
       ELSE storePc' = "loaded" /\ welcomeShown' = TRUE
    /\ UNCHANGED <<storage, loaded, durations, isClient, savedDeps, welcomeTimers, clears>>
    /\ UNCHANGED <<variant, status, field, resp, active>>
    /\ UNCHANGED <<serverVars, imageVars, dialogueVars>>

\* clearChat with a write that fails: the two setters come before the write,
\* the ref, the toast and the timer after it
clearChat_WriteFails ==
    /\ clears < MaxClears
    /\ clears' = clears + 1
    /\ messages' = <<>>
    /\ durations' = <<>>
    /\ IF SaveThrows(variant)
       THEN storePc' = "threw" /\ UNCHANGED <<welcomeShown, welcomeTimers>>
       ELSE /\ storePc' = storePc
            /\ welcomeShown' = FALSE
            /\ welcomeTimers' = welcomeTimers + 1
    /\ UNCHANGED <<storage, loaded, isClient, savedDeps>>
    /\ UNCHANGED <<variant, status, field, resp, active>>
    /\ UNCHANGED <<serverVars, imageVars, dialogueVars>>

\* the setTimeout callback of clearChat (page.tsx, part_002) with a write
\* that fails
WelcomeTimer_WriteFails ==
    /\ welcomeTimers > 0
    /\ welcomeTimers' = welcomeTimers - 1
    /\ messages' = <<WelcomeMessage(WelcomesMade + 1)>>
    /\ welcomeShown' = TRUE
    /\ UNCHANGED <<storage, loaded, storePc, durations, isClient, savedDeps, clears>>
    /\ UNCHANGED <<variant, status, field, resp, active>>
    /\ UNCHANGED <<serverVars, imageVars, dialogueVars>>

\* the page is mounted and no exception has left a handler or an effect
PageRuns == storePc = "loaded"

NextQuota ==
    \/ FirstRender
    \/ MountEffect
    \/ storePc # "threw" /\ SaveEffect
    \/ storePc # "threw" /\ SaveEffect_WriteFails
    \/ ~SaveEffectDue /\ WelcomeEffect
    \/ ~SaveEffectDue /\ WelcomeEffect_WriteFails
    \/ PageRuns /\ handleDurationChange
    \/ PageRuns /\ clearChat
    \/ PageRuns /\ clearChat_WriteFails
    \/ PageRuns /\ WelcomeTimer
    \/ PageRuns /\ WelcomeTimer_WriteFails

\* the mount of the page, duration updates and resets over a localStorage
\* whose writes may fail
SpecQuota == InitReset /\ [][NextQuota]_vars

\* C29: no exception of a failing storage write leaves
\* saveMessagesToStorage, and the save effect with a failing write leaves
\* messages, durations and status as they are.
C29_WriteFailureSwallowed ==
    /\ [](storePc # "threw")
    /\ [][ savedDeps' # savedDeps => UNCHANGED <<messages, durations, status>> ]_vars

\* the values the duration map holds under a key: none or one
DurationsAt(durs, key) == { durs[i].value : i \in { n \in 1 .. Len(durs) : durs[n].key = key } }

DurationKeys(durs) == { durs[i].key : i \in 1 .. Len(durs) }

\* the (message, part index) pairs of a conversation
PartsOf(msgs) == { <<k, i>> \in (1 .. Len(msgs)) \X (1 .. 8) : i <= Len(msgs[k].parts) }

\* a step of handleDurationChange: the durations change while the page stays
\* mounted and is not cleared
DurationUpdate == durations' # durations /\ storePc' = storePc /\ clears' = clears

\* C30: a duration update sets the entry of one reasoning part of the
\* conversation, leaves the entries under every other key and the conversation
\* as they were, and the keys of two parts differ unless the parts have the
\* same message id and the same index.
C30_DurationUpdateIsLocal ==
    /\ [][ DurationUpdate =>
             /\ messages' = messages
             /\ \E p \in PartsOf(messages) :
                  LET key == DurationKey(messages[p[1]], p[2])
                  IN  /\ messages[p[1]].parts[p[2]].type = "reasoning"
                      /\ Cardinality(DurationsAt(durations', key)) = 1
                      /\ DurationKeys(durations') = DurationKeys(durations) \cup {key}
                      /\ \A other \in DurationKeys(durations') \ {key} :
                           DurationsAt(durations', other) = DurationsAt(durations, other) ]_vars
    /\ [](\A p, q \in PartsOf(messages) :
            DurationKey(messages[p[1]], p[2]) = DurationKey(messages[q[1]], q[2])
              => messages[p[1]].id = messages[q[1]].id /\ p[2] = q[2])

\* C30 witness: the map holds the duration a reasoning part reported, under
\* a key the stored map did not have, next to the entry the stored map had.
C30_UpdatedNextToKept ==
    /\ storePc = "loaded"
    /\ clears = 0
    /\ LET before == DurationsOfJs(loaded[1].durations)
       IN  \E p \in PartsOf(messages) :
             LET key == DurationKey(messages[p[1]], p[2])
             IN  /\ messages[p[1]].parts[p[2]].type = "reasoning"
                 /\ key \notin DurationKeys(before)
                 /\ DurationsAt(durations, key) = {3}
                 /\ \E other \in DurationKeys(before) :
                      DurationsAt(durations, other) = DurationsAt(before, other)

====
